---------------------------- MODULE Spec2Model ----------------------------
(***************************************************************************)
(* Model of packages/api/src/tech-preview.ts:                              *)
(*   getTechPreviewDwnEndpoints  - fetch the well-known DID document, pick *)
(*       its '#dwn' service, validate the endpoint's shape, then probe     *)
(*       randomly drawn nodes until up to 2 healthy ones are found;        *)
(*   generateDwnConfiguration    - two key pairs and one service entry.    *)
(* Each await of the source is a suspend point and so a step boundary.     *)
(***************************************************************************)
EXTENDS Integers, Sequences, FiniteSets, TLC

(* ------------------------------ bounds --------------------------------- *)

\* longest node list a discovery document carries
MaxNodes == 5
\* longest node list of a document that lists two services
MaxDecoyNodes == 1
\* longest dwnUrls list handed to generateDwnConfiguration
MaxDwnUrls == 3
\* distinct key materials the key generator can produce
NumKeyMaterials == 2
\* longest node list of the document two concurrent calls read
MaxConcurrentNodes == 3

(* ----------------------------- constants ------------------------------- *)

\* Math.min(dwnUrls.length, 2): at most 2 nodes are allocated
MaxAllocated == 2

DwnId == "#dwn"
DwnType == "DecentralizedWebNode"
SigKeyId == "#dwn-sig"
EncKeyId == "#dwn-enc"

(* ------------------------------ helpers -------------------------------- *)

Min(a, b) == IF a <= b THEN a ELSE b

Range(s) == {s[i] : i \in 1..Len(s)}

NoDuplicates(s) == \A i, j \in 1..Len(s) : i # j => s[i] # s[j]

\* Node lists up to renaming of the URLs: a URL first occurs only after all
\* smaller ones have occurred (URLs are opaque strings to the program).
IsCanonical(s) ==
    \A i \in 1..Len(s) : \A u \in 1..(s[i] - 1) : \E j \in 1..(i - 1) : s[j] = u

NodeLists(maxLen) ==
    UNION {{s \in [1..len -> 1..(IF len = 0 THEN 1 ELSE len)] : IsCanonical(s)}
              : len \in 0..maxLen}

(* ----------------------- the remote discovery document ------------------ *)

\* The shapes a service's serviceEndpoint can take in the fetched JSON.
\*   absent          no serviceEndpoint key
\*   string, array   the other two shapes the DID schema allows
\*   null            serviceEndpoint: null
\*   objNoNodes      an object without a nodes key
\*   objNodesNotArr  an object whose nodes is not an array
\*   objNodes        an object whose nodes is an array (urls)
EndpointKinds ==
    {"absent", "string", "array", "null", "objNoNodes", "objNodesNotArr", "objNodes"}

ServiceShapes(maxLen) ==
    {[id |-> DwnId, type |-> DwnType, kind |-> k, urls |-> <<>>]
        : k \in EndpointKinds \ {"objNodes"}}
    \cup {[id |-> DwnId, type |-> DwnType, kind |-> "objNodes", urls |-> l]
        : l \in NodeLists(maxLen)}
    \cup {[id |-> i, type |-> t, kind |-> "objNodes", urls |-> <<1>>]
        : i \in {DwnId, "#other"}, t \in {DwnType, "Other"}}

Documents ==
    {[malformed |-> TRUE, service |-> <<>>]}
    \cup {[malformed |-> FALSE, service |-> <<>>]}
    \cup {[malformed |-> FALSE, service |-> <<s>>] : s \in ServiceShapes(MaxNodes)}
    \cup {[malformed |-> FALSE, service |-> <<s, t>>]
            : s \in ServiceShapes(MaxDecoyNodes), t \in ServiceShapes(MaxDecoyNodes)}

\* didUtils.getServices({ didDocument, id, type }): the services of the
\* document whose id and type both match, in document order.
getServices(didDocument, id, type) ==
    SelectSeq(didDocument.service, LAMBDA s : s.id = id /\ s.type = type)

\* const [ dwnService ] = ...: the first element, or undefined.
Undefined == [id |-> "undefined", type |-> "undefined", kind |-> "undefined", urls |-> <<>>]

FirstOf(services) == IF Len(services) = 0 THEN Undefined ELSE services[1]

\* Lines 67-70, evaluated left to right with short-circuit:
\*   'serviceEndpoint' in dwnService        TypeError when dwnService is undefined
\*   && !Array.isArray(serviceEndpoint)
\*   && typeof serviceEndpoint !== 'string'
\*   && Array.isArray(serviceEndpoint.nodes) TypeError when serviceEndpoint is null
ShapeCheck(dwnService) ==
    CASE dwnService = Undefined -> "TypeError"
      [] dwnService.kind = "absent" -> "skip"
      [] dwnService.kind = "array" -> "skip"
      [] dwnService.kind = "string" -> "skip"
      [] dwnService.kind = "null" -> "TypeError"
      [] dwnService.kind = "objNodes" -> "probe"
      [] OTHER -> "skip"

\* The candidate list the remote document leads to (empty when none).
CandidatesOf(d) ==
    IF d.malformed THEN <<>>
    ELSE LET s == FirstOf(getServices(d, DwnId, DwnType))
         IN IF ShapeCheck(s) = "probe" THEN s.urls ELSE <<>>

\* The documents two concurrent calls are run over.
ConcurrentDocuments ==
    {d \in Documents :
        Len(d.service) <= 1 /\ Len(CandidatesOf(d)) <= MaxConcurrentNodes}

(* ------------------------ the selection loop's parts -------------------- *)

\* slip: the cap of 2 forgotten
numNodesToAllocateUncapped(urls) == Len(urls)

\* const numNodesToAllocate = Math.min(dwnUrls.length, 2)
numNodesToAllocate(urls) == Min(Len(urls), MaxAllocated)

\* slip: the budget is short by one (attempts < dwnUrls.length - 1)
LoopConditionShortBudget(att, urls, endpoints) ==
    att < Len(urls) - 1 /\ Len(endpoints) < numNodesToAllocate(urls)

\* slip: the test on the Set's size left out
LoopConditionNoTarget(att, urls, endpoints) ==
    att < Len(urls)

\* attempts < dwnUrls.length && techPreviewEndpoints.size < numNodesToAllocate
LoopCondition(att, urls, endpoints) ==
    att < Len(urls) /\ Len(endpoints) < numNodesToAllocate(urls)

\* getRandomInt(min, max): the values Math.floor(Math.random() * (max - min)) + min
\* can take, Math.random() being in [0, 1)
getRandomInt(min, max) == min..(max - 1)

\* slip: an array push in place of Set.prototype.add
SetAddAsPush(endpoints, url) == Append(endpoints, url)

\* Set.prototype.add on an insertion-ordered Set
SetAdd(endpoints, url) ==
    IF url \in Range(endpoints) THEN endpoints ELSE Append(endpoints, url)

\* slip: the Set hoisted to module scope, so a call starts from what another
\* call has put into it
NewSetHoisted(existing) == existing

\* line 65: new Set<string>(), allocated by each call for itself, whatever
\* the Set of another call holds
NewSet(existing) == <<>>

\* fetch('https://dwn.tbddev.org/.well-known/did.json'); node 0 is that host
DiscoveryRequest == [node |-> 0, path |-> "/.well-known/did.json"]

\* slip: the node's base URL fetched, the /health segment forgotten
HealthRequestNoPath(dwnUrl) == [node |-> dwnUrl, path |-> ""]

\* fetch(`${dwnUrl}/health`)
HealthRequest(dwnUrl) == [node |-> dwnUrl, path |-> "/health"]

\* a request settles: it is in flight no more
RECURSIVE Settled(_, _)
Settled(requests, request) ==
    IF Len(requests) = 0 THEN <<>>
    ELSE IF Head(requests) = request THEN Tail(requests)
    ELSE <<Head(requests)>> \o Settled(Tail(requests), request)

\* What one GET can come to: a rejected promise, or a response whose ok is
\* false or true.
FetchOutcomes == {"throw", "notOk", "ok"}

\* The outcomes of GET <url>/health a node of the given health can give.
HealthOutcomes(h) ==
    CASE h = "up" -> {"ok"}
      [] h = "down" -> {"throw", "notOk"}
      [] OTHER -> FetchOutcomes

\* slip: the !response.ok test of line 53 left out
FetchFailedOnlyOnThrow(outcome) == outcome = "throw"

\* lines 53-56: a rejected fetch, or !response.ok, lands in the catch block
FetchFailed(outcome) == outcome # "ok"

\* slip: attempts counted only in a branch that is never taken
NextAttemptsStuck(att) == att

\* the for statement's attempts += 1
NextAttempts(att) == att + 1

\* slip: the healthCheck.ok test of line 81 left out
AfterHealthCheckUnchecked(endpoints, url, outcome) ==
    IF outcome = "throw" THEN endpoints ELSE SetAdd(endpoints, url)

\* slip: the healthCheck.ok test of line 81 negated
AfterHealthCheckNegated(endpoints, url, outcome) ==
    IF outcome = "notOk" THEN SetAdd(endpoints, url) ELSE endpoints

\* slip: a node that fails its probe is taken out of the Set again
AfterHealthCheckForgetful(endpoints, url, outcome) ==
    IF outcome = "ok" THEN SetAdd(endpoints, url)
    ELSE SelectSeq(endpoints, LAMBDA u : u # url)

\* after the try block of lines 79-86
AfterHealthCheck(endpoints, url, outcome) ==
    IF outcome = "ok" THEN SetAdd(endpoints, url) ELSE endpoints

(* ---------------------- generateDwnConfiguration ------------------------ *)

KeyMaterials == 1..NumKeyMaterials

NoKeyPair == [keyId |-> "none", material |-> 0]

\* DidIonMethod.generateJwkKeyPair({ keyAlgorithm, keyId }) when it resolves:
\* a freshly generated key pair carrying the keyId it was asked for.
generateJwkKeyPair(keyAlgorithm, keyId, material) ==
    [keyId |-> keyId, material |-> material]

\* slip: signingKeyPair spread into both entries
BuildKeySetSameKey(signingKeyPair, encryptionKeyPair) ==
    [verificationMethodKeys |->
        << [keyId |-> signingKeyPair.keyId,
            material |-> signingKeyPair.material,
            relationships |-> <<"authentication">>],
           [keyId |-> signingKeyPair.keyId,
            material |-> signingKeyPair.material,
            relationships |-> <<"keyAgreement">>] >>]

\* lines 25-30: { ...keyPair, relationships: [...] } for both key pairs
BuildKeySet(signingKeyPair, encryptionKeyPair) ==
    [verificationMethodKeys |->
        << [keyId |-> signingKeyPair.keyId,
            material |-> signingKeyPair.material,
            relationships |-> <<"authentication">>],
           [keyId |-> encryptionKeyPair.keyId,
            material |-> encryptionKeyPair.material,
            relationships |-> <<"keyAgreement">>] >>]

RECURSIVE Deduplicated(_)
Deduplicated(s) ==
    IF Len(s) = 0 THEN <<>>
    ELSE LET front == Deduplicated(SubSeq(s, 1, Len(s) - 1))
         IN IF s[Len(s)] \in Range(front) THEN front ELSE Append(front, s[Len(s)])

\* slip: the node list passed through a Set
BuildServicesDeduplicated(urls) ==
    << [id |-> DwnId,
        type |-> DwnType,
        serviceEndpoint |-> [nodes |-> Deduplicated(urls),
                             signingKeys |-> <<SigKeyId>>,
                             encryptionKeys |-> <<EncKeyId>>]] >>

\* lines 32-40
BuildServices(urls) ==
    << [id |-> DwnId,
        type |-> DwnType,
        serviceEndpoint |-> [nodes |-> urls,
                             signingKeys |-> <<SigKeyId>>,
                             encryptionKeys |-> <<EncKeyId>>]] >>

NoConfiguration == [keySet |-> [verificationMethodKeys |-> <<>>], services |-> <<>>]

\* The errors the key generator rejects with: an unsupported algorithm, or a
\* failure of the underlying cryptography.
KeyGenErrors == {"UnsupportedAlgorithm", "CryptoFailure"}

\* slip: the rejection caught and a new Error thrown, as line 54 does
RejectedWrapped(error) ==
    [position |-> "threw", thrown |-> "Error", configuration |-> NoConfiguration]

\* lines 15-23: no try block surrounds the awaits, so a rejection of either
\* rejects the call with that very error and nothing is returned
Rejected(error) ==
    [position |-> "threw", thrown |-> error, configuration |-> NoConfiguration]

\* the dwnUrls lists a caller may pass: any list, duplicates included
DwnUrlLists == UNION {[1..len -> 1..MaxDwnUrls] : len \in 0..MaxDwnUrls}

(* ------------------------------- state ---------------------------------- *)

VARIABLES
    pc,                    \* position in getTechPreviewDwnEndpoints
    response,              \* how the discovery fetch settled ("none" before)
    doc,                   \* the document published at the well-known URL
    health,                \* per candidate URL: "up", "down" or "flaky"
    dwnUrls,               \* const dwnUrls (empty before line 71)
    techPreviewEndpoints,  \* the Set, in insertion order
    attempts,              \* the loop counter
    nodeIdx,               \* the index drawn in this iteration (0-based; -1: none)
    returned,              \* the array the promise resolved to
    docFetches,            \* GETs of the discovery document issued
    jsonCalls,             \* response.json() calls
    probes,                \* GETs of <url>/health issued
    okProbed,              \* URLs whose health probe answered ok
    warnings,              \* console.warn calls
    probeOutcome,          \* how the last health probe settled ("none": pending or none)
    inFlight,              \* the requests of this call that have not settled
    other,                 \* a second, concurrent call of getTechPreviewDwnEndpoints
    bpc,                   \* position in generateDwnConfiguration
    optionsDwnUrls,        \* options.dwnUrls
    signingKeyPair,        \* const signingKeyPair
    encryptionKeyPair,     \* const encryptionKeyPair
    configuration,         \* the { keySet, services } the promise resolved to
    keyGenCalls,           \* DidIonMethod.generateJwkKeyPair calls
    rejection,             \* the error generateJwkKeyPair rejected with ("none": none did)
    thrown                 \* the error generateDwnConfiguration rejected with

selectorVars == <<pc, response, doc, health, dwnUrls, techPreviewEndpoints, attempts,
                  nodeIdx, returned, docFetches, jsonCalls, probes, okProbed, warnings,
                  probeOutcome, inFlight>>

builderVars == <<bpc, optionsDwnUrls, signingKeyPair, encryptionKeyPair,
                 configuration, keyGenCalls, rejection, thrown>>

vars == <<selectorVars, builderVars, other>>

\* the locals of a second call, at the given position with nothing done yet
InvocationAt(position) ==
    [pc |-> position, response |-> "none", dwnUrls |-> <<>>,
     techPreviewEndpoints |-> <<>>, attempts |-> 0, nodeIdx |-> -1,
     returned |-> <<>>, probes |-> 0, okProbed |-> {}]

Healths == {"up", "down", "flaky"}

\* generateDwnConfiguration before it is called with dwnUrls = urls
BuilderAt(position, urls) ==
    /\ bpc = position
    /\ optionsDwnUrls = urls
    /\ signingKeyPair = NoKeyPair
    /\ encryptionKeyPair = NoKeyPair
    /\ configuration = NoConfiguration
    /\ keyGenCalls = 0
    /\ rejection = "none"
    /\ thrown = "none"

\* getTechPreviewDwnEndpoints at the given position, nothing done yet
SelectorAt(position, document) ==
    /\ pc = position
    /\ response = "none"
    /\ doc = document
    /\ health \in [Range(CandidatesOf(document)) -> Healths]
    /\ dwnUrls = <<>>
    /\ techPreviewEndpoints = <<>>
    /\ attempts = 0
    /\ nodeIdx = -1
    /\ returned = <<>>
    /\ docFetches = 0
    /\ jsonCalls = 0
    /\ probes = 0
    /\ okProbed = {}
    /\ warnings = 0
    /\ probeOutcome = "none"
    /\ inFlight = <<>>

\* a call of getTechPreviewDwnEndpoints
Init ==
    /\ \E document \in Documents : SelectorAt("start", document)
    /\ other = InvocationAt("idle")
    /\ BuilderAt("idle", <<>>)

\* a call of generateDwnConfiguration({ dwnUrls })
BuildInit ==
    /\ SelectorAt("idle", [malformed |-> FALSE, service |-> <<>>])
    /\ other = InvocationAt("idle")
    /\ \E urls \in DwnUrlLists : BuilderAt("start", urls)

(* ------------------------------ actions --------------------------------- *)

\* line 52: fetch(...did.json) is issued and the function suspends
FetchDocument ==
    /\ pc = "start"
    /\ pc' = "awaitFetch"
    /\ docFetches' = docFetches + 1
    /\ inFlight' = Append(inFlight, DiscoveryRequest)
    /\ UNCHANGED <<doc, health, dwnUrls, techPreviewEndpoints, attempts, nodeIdx,
                   returned, response, jsonCalls, probes, okProbed, warnings,
                   probeOutcome, builderVars, other>>

\* lines 52-59: the fetch settles; a rejection or !response.ok warns and
\* returns []
FetchDocumentReturn ==
    /\ pc = "awaitFetch"
    /\ inFlight' = Settled(inFlight, DiscoveryRequest)
    /\ \E outcome \in FetchOutcomes :
         /\ response' = outcome
         /\ IF FetchFailed(outcome)
            THEN /\ pc' = "done"
                 /\ warnings' = warnings + 1
                 /\ returned' = <<>>
                 /\ UNCHANGED jsonCalls
            ELSE /\ pc' = "awaitJson"
                 /\ jsonCalls' = jsonCalls + 1
                 /\ UNCHANGED <<warnings, returned>>
    /\ UNCHANGED <<doc, health, dwnUrls, techPreviewEndpoints, attempts, nodeIdx,
                   docFetches, probes, okProbed, probeOutcome, builderVars, other>>

\* lines 61-73: response.json() settles (rejecting on a malformed body, which
\* nothing catches), the service is picked, the Set allocated and the
\* endpoint's shape checked
ExtractService ==
    /\ pc = "awaitJson"
    /\ IF doc.malformed
       THEN /\ pc' = "threw"
            /\ UNCHANGED <<dwnUrls, returned, techPreviewEndpoints>>
       ELSE LET dwnService == FirstOf(getServices(doc, DwnId, DwnType))
                shape == ShapeCheck(dwnService)
                fresh == NewSet(other.techPreviewEndpoints)
            IN /\ techPreviewEndpoints' = fresh
               /\ CASE shape = "TypeError" ->
                         /\ pc' = "threw"
                         /\ UNCHANGED <<dwnUrls, returned>>
                    [] shape = "skip" ->
                         /\ pc' = "done"
                         /\ returned' = fresh
                         /\ UNCHANGED dwnUrls
                    [] OTHER ->
                         /\ pc' = "loop"
                         /\ dwnUrls' = dwnService.urls
                         /\ UNCHANGED returned
    /\ UNCHANGED <<response, doc, health, attempts, nodeIdx, docFetches, jsonCalls,
                   probes, okProbed, warnings, probeOutcome, inFlight, builderVars,
                   other>>

\* lines 75-80: the loop test holds, an index is drawn and the probe issued
IssueProbe ==
    /\ pc = "loop"
    /\ LoopCondition(attempts, dwnUrls, techPreviewEndpoints)
    /\ \E idx \in getRandomInt(0, Len(dwnUrls)) :
         /\ nodeIdx' = idx
         /\ inFlight' = Append(inFlight, HealthRequest(dwnUrls[idx + 1]))
    /\ probes' = probes + 1
    /\ probeOutcome' = "none"
    /\ pc' = "awaitHealth"
    /\ UNCHANGED <<doc, health, dwnUrls, techPreviewEndpoints, attempts,
                   returned, response, docFetches, jsonCalls, okProbed, warnings,
                   builderVars, other>>

\* lines 80-86 and the loop's attempts += 1: the probe settles
ProbeReturn ==
    /\ pc = "awaitHealth"
    /\ LET dwnUrl == dwnUrls[nodeIdx + 1]
       IN /\ inFlight' = Settled(inFlight, HealthRequest(dwnUrl))
          /\ \E outcome \in HealthOutcomes(health[dwnUrl]) :
               /\ probeOutcome' = outcome
               /\ techPreviewEndpoints' =
                      AfterHealthCheck(techPreviewEndpoints, dwnUrl, outcome)
               /\ okProbed' = IF outcome = "ok" THEN okProbed \cup {dwnUrl}
                              ELSE okProbed
    /\ attempts' = NextAttempts(attempts)
    /\ nodeIdx' = -1
    /\ pc' = "loop"
    /\ UNCHANGED <<response, doc, health, dwnUrls, returned, docFetches, jsonCalls,
                   probes, warnings, builderVars, other>>

\* lines 75 and 90: the loop test fails; return Array.from(techPreviewEndpoints)
ReturnEndpoints ==
    /\ pc = "loop"
    /\ ~LoopCondition(attempts, dwnUrls, techPreviewEndpoints)
    /\ returned' = techPreviewEndpoints
    /\ pc' = "done"
    /\ UNCHANGED <<response, doc, health, dwnUrls, techPreviewEndpoints, attempts,
                   nodeIdx, docFetches, jsonCalls, probes, okProbed,
                   warnings, probeOutcome, inFlight, builderVars, other>>

Next ==
    \/ FetchDocument
    \/ FetchDocumentReturn
    \/ ExtractService
    \/ IssueProbe
    \/ ProbeReturn
    \/ ReturnEndpoints

Spec == Init /\ [][Next]_vars

\* Every request that was issued settles, and the event loop resumes the
\* function after each await.
FairSpec == Spec /\ WF_vars(Next)

\* line 15: the first generateJwkKeyPair call is made and the function suspends
GenerateSigningKey ==
    /\ bpc = "start"
    /\ bpc' = "awaitSigningKey"
    /\ keyGenCalls' = keyGenCalls + 1
    /\ UNCHANGED <<optionsDwnUrls, signingKeyPair, encryptionKeyPair, configuration,
                   rejection, thrown, selectorVars, other>>

\* lines 15-20: the first call settles; a rejection rejects the whole call,
\* otherwise the second generateJwkKeyPair call is made
SigningKeyReturn ==
    /\ bpc = "awaitSigningKey"
    /\ \/ \E error \in KeyGenErrors :
            /\ rejection' = error
            /\ bpc' = Rejected(error).position
            /\ thrown' = Rejected(error).thrown
            /\ configuration' = Rejected(error).configuration
            /\ UNCHANGED <<signingKeyPair, keyGenCalls>>
       \/ \E material \in KeyMaterials :
            /\ signingKeyPair' = generateJwkKeyPair("Ed25519", SigKeyId, material)
            /\ keyGenCalls' = keyGenCalls + 1
            /\ bpc' = "awaitEncryptionKey"
            /\ UNCHANGED <<configuration, rejection, thrown>>
    /\ UNCHANGED <<optionsDwnUrls, encryptionKeyPair, selectorVars, other>>

\* lines 20-42: the second call settles; a rejection rejects the whole call,
\* otherwise keySet and services are assembled and returned
EncryptionKeyReturn ==
    /\ bpc = "awaitEncryptionKey"
    /\ \/ \E error \in KeyGenErrors :
            /\ rejection' = error
            /\ bpc' = Rejected(error).position
            /\ thrown' = Rejected(error).thrown
            /\ configuration' = Rejected(error).configuration
            /\ UNCHANGED encryptionKeyPair
       \/ \E material \in KeyMaterials :
            LET keyPair == generateJwkKeyPair("Ed25519", EncKeyId, material)
            IN /\ encryptionKeyPair' = keyPair
               /\ configuration' = [keySet |-> BuildKeySet(signingKeyPair, keyPair),
                                    services |-> BuildServices(optionsDwnUrls)]
               /\ bpc' = "done"
               /\ UNCHANGED <<rejection, thrown>>
    /\ UNCHANGED <<optionsDwnUrls, signingKeyPair, keyGenCalls, selectorVars, other>>

BuildNext ==
    \/ GenerateSigningKey
    \/ SigningKeyReturn
    \/ EncryptionKeyReturn

BuildSpec == BuildInit /\ [][BuildNext]_vars

(* ------------------- a second, concurrent call -------------------------- *)
\* The same function, run by a second caller over the same document and the
\* same nodes; its locals are the fields of other. The two calls interleave
\* at their awaits.

\* line 52
OtherFetchDocument ==
    /\ other.pc = "start"
    /\ other' = [other EXCEPT !.pc = "awaitFetch"]
    /\ UNCHANGED <<selectorVars, builderVars>>

\* lines 52-59
OtherFetchDocumentReturn ==
    /\ other.pc = "awaitFetch"
    /\ \E outcome \in FetchOutcomes :
         other' = IF FetchFailed(outcome)
                  THEN [other EXCEPT !.response = outcome, !.pc = "done",
                                     !.returned = <<>>]
                  ELSE [other EXCEPT !.response = outcome, !.pc = "awaitJson"]
    /\ UNCHANGED <<selectorVars, builderVars>>

\* lines 61-73
OtherExtractService ==
    /\ other.pc = "awaitJson"
    /\ IF doc.malformed
       THEN other' = [other EXCEPT !.pc = "threw"]
       ELSE LET dwnService == FirstOf(getServices(doc, DwnId, DwnType))
                shape == ShapeCheck(dwnService)
                fresh == NewSet(techPreviewEndpoints)
            IN CASE shape = "TypeError" ->
                      other' = [other EXCEPT !.pc = "threw",
                                             !.techPreviewEndpoints = fresh]
                 [] shape = "skip" ->
                      other' = [other EXCEPT !.pc = "done",
                                             !.techPreviewEndpoints = fresh,
                                             !.returned = fresh]
                 [] OTHER ->
                      other' = [other EXCEPT !.pc = "loop",
                                             !.techPreviewEndpoints = fresh,
                                             !.dwnUrls = dwnService.urls]
    /\ UNCHANGED <<selectorVars, builderVars>>

\* lines 75-80
OtherIssueProbe ==
    /\ other.pc = "loop"
    /\ LoopCondition(other.attempts, other.dwnUrls, other.techPreviewEndpoints)
    /\ \E idx \in getRandomInt(0, Len(other.dwnUrls)) :
         other' = [other EXCEPT !.nodeIdx = idx, !.probes = @ + 1,
                                !.pc = "awaitHealth"]
    /\ UNCHANGED <<selectorVars, builderVars>>

\* lines 80-86 and attempts += 1
OtherProbeReturn ==
    /\ other.pc = "awaitHealth"
    /\ LET dwnUrl == other.dwnUrls[other.nodeIdx + 1]
       IN \E outcome \in HealthOutcomes(health[dwnUrl]) :
            other' = [other EXCEPT
                        !.techPreviewEndpoints = AfterHealthCheck(@, dwnUrl, outcome),
                        !.okProbed = IF outcome = "ok" THEN @ \cup {dwnUrl} ELSE @,
                        !.attempts = NextAttempts(@),
                        !.nodeIdx = -1,
                        !.pc = "loop"]
    /\ UNCHANGED <<selectorVars, builderVars>>

\* lines 75 and 90
OtherReturnEndpoints ==
    /\ other.pc = "loop"
    /\ ~LoopCondition(other.attempts, other.dwnUrls, other.techPreviewEndpoints)
    /\ other' = [other EXCEPT !.returned = other.techPreviewEndpoints, !.pc = "done"]
    /\ UNCHANGED <<selectorVars, builderVars>>

\* two calls of getTechPreviewDwnEndpoints, both about to start
ConcurrentInit ==
    /\ \E document \in ConcurrentDocuments : SelectorAt("start", document)
    /\ other = InvocationAt("start")
    /\ BuilderAt("idle", <<>>)

ConcurrentNext ==
    \/ FetchDocument
    \/ FetchDocumentReturn
    \/ ExtractService
    \/ IssueProbe
    \/ ProbeReturn
    \/ ReturnEndpoints
    \/ OtherFetchDocument
    \/ OtherFetchDocumentReturn
    \/ OtherExtractService
    \/ OtherIssueProbe
    \/ OtherProbeReturn
    \/ OtherReturnEndpoints

ConcurrentSpec == ConcurrentInit /\ [][ConcurrentNext]_vars

(* ------------------------------ properties ------------------------------ *)

\* n, the candidate list of this call, and target = min(n, 2)
Candidates == CandidatesOf(doc)

Target == IF Len(Candidates) < 2 THEN Len(Candidates) ELSE 2

AllUp == \A u \in Range(Candidates) : health[u] = "up"

UpUrls == {u \in Range(Candidates) : health[u] = "up"}

DownUrls == {u \in Range(Candidates) : health[u] = "down"}

WithinTarget(endpoints) ==
    /\ NoDuplicates(endpoints)
    /\ Len(endpoints) <= Target
    /\ Range(endpoints) \subseteq Range(Candidates)

\* C1: at every state of the call, the result set holds no URL twice, has at
\* most target = min(n, 2) members, all of them candidate URLs; and so does the
\* array the call returns.
C1_ResultWithinTarget ==
    /\ WithinTarget(techPreviewEndpoints)
    /\ WithinTarget(returned)
    /\ Target \in {0, 1, 2}

\* C1 witness: a call over a list that repeats a URL returned 2 URLs after
\* spending more probes than that.
C1_Witness ==
    /\ pc = "done"
    /\ Len(returned) = 2
    /\ probes > 2
    /\ ~NoDuplicates(Candidates)

\* C2: at most n health probes are ever issued, and once the loop is entered
\* the call reaches its return (every issued request settling).
C2_LoopTerminatesWithinBudget ==
    /\ [](probes <= Len(Candidates))
    /\ [](pc \in {"loop", "awaitHealth"} => <>(pc = "done"))

\* C2 witness: the whole budget of n >= 3 probes was spent, over nodes that
\* answer now and then, and one URL came out of it.
C2_Witness ==
    /\ pc = "done"
    /\ Len(Candidates) >= 3
    /\ probes = Len(Candidates)
    /\ \A u \in Range(Candidates) : health[u] = "flaky"
    /\ Len(returned) = 1

\* C3 (as claimed): the call never ends in an error, and a document without
\* candidates ends it with an empty result and no probe.
C3_NeverPropagates ==
    /\ pc # "threw"
    /\ (pc = "done" /\ Len(Candidates) = 0) => (returned = <<>> /\ probes = 0)

\* C4: when the discovery fetch rejects or answers with a non-success status,
\* the call has returned [] and has neither parsed a body nor probed a node.
C4_FailedFetchReturnsEmpty ==
    response \in {"throw", "notOk"} =>
        /\ pc = "done"
        /\ returned = <<>>
        /\ probes = 0
        /\ jsonCalls = 0

\* C4 witness: the fetch answered non-success although the document lists
\* healthy nodes.
C4_Witness ==
    /\ response = "notOk"
    /\ pc = "done"
    /\ Len(Candidates) > 0
    /\ AllUp

\* exactly 3 distinct candidates, 1 healthy, the other 2 always failing
OneHealthyOfThree ==
    /\ Len(Candidates) = 3
    /\ NoDuplicates(Candidates)
    /\ Cardinality(UpUrls) = 1
    /\ Cardinality(DownUrls) = 2

\* C5: every URL of the result (and of the returned array) got an ok answer to
\* a health probe of this call; a node that always fails is never in it; with 3
\* candidates of which 1 is healthy and 2 always fail, at most 3 probes are
\* issued and the result holds nothing but the healthy URL.
C5_OnlyHealthyProbedUrls ==
    /\ Range(techPreviewEndpoints) \subseteq okProbed
    /\ Range(returned) \subseteq okProbed
    /\ Range(techPreviewEndpoints) \cap DownUrls = {}
    /\ Range(returned) \cap DownUrls = {}
    /\ OneHealthyOfThree =>
          /\ probes <= 3
          /\ Range(techPreviewEndpoints) \subseteq UpUrls
          /\ Range(returned) \subseteq UpUrls
          /\ Len(returned) <= 1

\* C5 witness: 3 candidates, 1 healthy, 2 failing; all 3 probes were spent and
\* the healthy URL was returned.
C5_Witness ==
    /\ OneHealthyOfThree
    /\ pc = "done"
    /\ probes = 3
    /\ Range(returned) = UpUrls

\* n >= 2 distinct candidates, all healthy, and the call has returned from
\* its loop
AllHealthyDone ==
    /\ pc = "done"
    /\ response = "ok"
    /\ Len(Candidates) >= 2
    /\ NoDuplicates(Candidates)
    /\ AllUp

\* C6 (as claimed): n >= 2 distinct candidates, all healthy: the call returns
\* exactly 2 candidate URLs after at most n probes.
C6_ExactlyTwo ==
    AllHealthyDone =>
        /\ Len(returned) = 2
        /\ Range(returned) \subseteq Range(Candidates)
        /\ probes <= Len(Candidates)

\* C6 (amended): n >= 2 distinct candidates, all healthy: the call returns 1
\* or 2 candidate URLs after at most n probes, and only 1 when all n probes
\* went to the same URL.
C6_OneOrTwo ==
    AllHealthyDone =>
        /\ Len(returned) \in {1, 2}
        /\ Range(returned) \subseteq Range(Candidates)
        /\ probes <= Len(Candidates)
        /\ Len(returned) = 1 =>
              (probes = Len(Candidates) /\ Cardinality(okProbed) = 1)

\* C6 witness: 5 distinct healthy candidates, 5 probes, 1 URL returned.
C6_Witness ==
    /\ AllHealthyDone
    /\ Len(Candidates) = 5
    /\ probes = 5
    /\ Len(returned) = 1

\* C7: 1 candidate, healthy: never a second probe, and the call returns that
\* URL after exactly 1 probe.
C7_SingleHealthyCandidate ==
    (Len(Candidates) = 1 /\ AllUp) =>
        /\ probes <= 1
        /\ (pc = "done" /\ response = "ok") =>
              (returned = Candidates /\ probes = 1)

\* C7 witness: the call over 1 healthy candidate has returned it.
C7_Witness ==
    /\ Len(Candidates) = 1
    /\ AllUp
    /\ pc = "done"
    /\ returned = Candidates
    /\ probes = 1

\* the document lists a matching service whose endpoint is not an object
\* holding a non-empty nodes array
BadEndpointShape ==
    /\ ~doc.malformed
    /\ LET services == getServices(doc, DwnId, DwnType)
       IN /\ Len(services) > 0
          /\ \/ services[1].kind # "objNodes"
             \/ services[1].urls = <<>>

\* C8 (as claimed): with a matching service whose endpoint fails a shape
\* check, or whose nodes array is empty, the call raises nothing, probes
\* nothing and returns [].
C8_BadShapeReturnsEmpty ==
    BadEndpointShape =>
        /\ pc # "threw"
        /\ probes = 0
        /\ pc = "done" => returned = <<>>

\* C8, the part that holds: the same, for every such endpoint but null.
C8_NonNullBadShapeReturnsEmpty ==
    (BadEndpointShape /\ getServices(doc, DwnId, DwnType)[1].kind # "null") =>
        /\ pc # "threw"
        /\ probes = 0
        /\ pc = "done" => returned = <<>>

\* a Configuration was returned
Built == bpc = "done"

\* C9: a successful build returns exactly 1 service, of type
\* DecentralizedWebNode, whose nodes are the input list as given.
C9_NodesVerbatim ==
    Built =>
        /\ Len(configuration.services) = 1
        /\ configuration.services[1].type = "DecentralizedWebNode"
        /\ configuration.services[1].serviceEndpoint.nodes = optionsDwnUrls

\* C9 witness: a build over a list of 3 URLs that repeats one.
C9_Witness ==
    /\ Built
    /\ Len(optionsDwnUrls) >= 3
    /\ ~NoDuplicates(optionsDwnUrls)

\* C10: a returned Configuration holds exactly 2 keys, those the 2 key
\* generator calls of this build produced, with distinct identifiers; the
\* service's signingKeys is the 1-element list of the authentication key's
\* identifier and its encryptionKeys that of the keyAgreement key's.
C10_KeyReferencesMatch ==
    Built =>
        LET keys == configuration.keySet.verificationMethodKeys
            endpoint == configuration.services[1].serviceEndpoint
        IN /\ Len(keys) = 2
           /\ keyGenCalls = 2
           /\ keys[1].keyId # keys[2].keyId
           /\ keys[1].relationships = <<"authentication">>
           /\ keys[2].relationships = <<"keyAgreement">>
           /\ keys[1].material = signingKeyPair.material
           /\ keys[2].material = encryptionKeyPair.material
           /\ endpoint.signingKeys = <<keys[1].keyId>>
           /\ endpoint.encryptionKeys = <<keys[2].keyId>>

\* C10 witness: a build whose 2 calls produced different key materials.
C10_Witness ==
    /\ Built
    /\ signingKeyPair.material # encryptionKeyPair.material
    /\ Len(optionsDwnUrls) > 0

\* C11: the build is all-or-nothing. When a key generator call rejects, the
\* build rejects with that same error and returns no Configuration; a
\* Configuration is returned only when both calls have resolved, and then
\* nothing was rejected.
C11_AllOrNothing ==
    /\ rejection # "none" =>
          /\ bpc = "threw"
          /\ thrown = rejection
          /\ configuration = NoConfiguration
    /\ bpc = "threw" => (rejection # "none" /\ configuration = NoConfiguration)
    /\ configuration # NoConfiguration =>
          /\ bpc = "done"
          /\ keyGenCalls = 2
          /\ signingKeyPair # NoKeyPair
          /\ encryptionKeyPair # NoKeyPair
          /\ rejection = "none"
          /\ thrown = "none"
    /\ Built => configuration # NoConfiguration

\* C11 witness: the second call rejected after the first had resolved.
C11_Witness ==
    /\ bpc = "threw"
    /\ signingKeyPair # NoKeyPair
    /\ keyGenCalls = 2
    /\ thrown = "CryptoFailure"

\* C12: the step in which a probe settles adds exactly 1 to attempts and goes
\* back to the loop test, never to an error; a probe that rejected or answered
\* non-success leaves the result set as it was, a successful one adds the probed
\* URL and nothing else; no step takes a URL out of the result set; and at the
\* loop test with attempts < n and fewer than target results, the next step
\* issues a probe.
C12_IterationFrame ==
    [][ /\ pc = "awaitHealth" =>
              /\ pc' = "loop"
              /\ attempts' = attempts + 1
              /\ probeOutcome' \in {"throw", "notOk", "ok"}
              /\ probeOutcome' \in {"throw", "notOk"} =>
                    techPreviewEndpoints' = techPreviewEndpoints
              /\ probeOutcome' = "ok" =>
                    /\ Range(techPreviewEndpoints') =
                           Range(techPreviewEndpoints) \cup {dwnUrls[nodeIdx + 1]}
                    /\ NoDuplicates(techPreviewEndpoints')
        /\ pc # "awaitHealth" => attempts' = attempts
        /\ Range(techPreviewEndpoints) \subseteq Range(techPreviewEndpoints')
        /\ (/\ pc = "loop"
            /\ attempts < Len(Candidates)
            /\ Len(techPreviewEndpoints) < Target) => pc' = "awaitHealth"
      ]_vars

\* C12 witness: a probe rejected after an earlier one had succeeded; the URL
\* found earlier is still there and the loop goes on.
C12_Witness ==
    /\ pc = "loop"
    /\ probeOutcome = "throw"
    /\ attempts >= 2
    /\ Len(techPreviewEndpoints) = 1
    /\ attempts < Len(Candidates)

\* C13: when the call returns from its loop, the result has target members
\* or exactly n probes were issued; and a probe is in flight only while the
\* result has fewer than target members.
C13_StopsAtTargetOrBudget ==
    /\ (pc = "done" /\ response = "ok") =>
          \/ Len(returned) = Target
          \/ probes = Len(Candidates)
    /\ pc = "awaitHealth" => Len(techPreviewEndpoints) < Target

\* C13 witness: the whole budget of n >= 3 probes was spent and the result
\* is short of target.
C13_Witness ==
    /\ pc = "done"
    /\ Len(Candidates) >= 3
    /\ Len(returned) < Target
    /\ probes = Len(Candidates)

\* C13 witness of the other exit: target was reached with budget left, and
\* the probe that reached it was the last one.
C13_WitnessEarlyExit ==
    /\ pc = "done"
    /\ Len(returned) = 2
    /\ probes = 2
    /\ Len(Candidates) = 5

\* n >= 2, all candidates healthy and at least 2 of them distinct, and the
\* call has returned fewer than target URLs
Shortfall ==
    /\ pc = "done"
    /\ response = "ok"
    /\ Len(Candidates) >= 2
    /\ Cardinality(UpUrls) >= Target
    /\ AllUp
    /\ Len(returned) < Target

\* C14: a call over n >= 2 healthy candidates, 2 of them distinct, returns
\* fewer than target URLs only by spending all n probes on one and the same
\* URL (and the witness shows that such a call exists).
C14_ShortfallOnlyByRedraws ==
    Shortfall =>
        /\ probes = Len(Candidates)
        /\ attempts = Len(Candidates)
        /\ Cardinality(okProbed) = 1
        /\ Range(returned) = okProbed

\* C14 witness: such a call, over 3 healthy candidates.
C14_Witness ==
    /\ Shortfall
    /\ Len(Candidates) = 3
    /\ NoDuplicates(Candidates)

\* C16: the discovery document is fetched once; at most one request is in
\* flight; a health probe is issued only after the discovery fetch has settled
\* with a success status; and every probe goes to <url>/health of a candidate.
C16_SequentialRequests ==
    /\ docFetches = (IF pc = "start" THEN 0 ELSE 1)
    /\ Len(inFlight) <= 1
    /\ Len(inFlight) = (IF pc \in {"awaitFetch", "awaitHealth"} THEN 1 ELSE 0)
    /\ probes > 0 => (response = "ok" /\ DiscoveryRequest \notin Range(inFlight))
    /\ pc = "awaitFetch" => inFlight = <<DiscoveryRequest>>
    /\ pc = "awaitHealth" =>
          /\ inFlight[1].path = "/health"
          /\ inFlight[1].node \in Range(Candidates)
    /\ probes = attempts + (IF pc = "awaitHealth" THEN 1 ELSE 0)

\* C16 witness: the third probe of a call is in flight, alone.
C16_Witness ==
    /\ pc = "awaitHealth"
    /\ probes = 3
    /\ Len(inFlight) = 1

\* what one call holds is its own doing: its results are URLs it got an ok
\* answer from itself, it has issued at most n probes, and its attempts are
\* the probes of its own that have settled
OwnDoing(position, endpoints, result, oks, issued, settled) ==
    /\ Range(endpoints) \subseteq oks
    /\ Range(result) \subseteq oks
    /\ issued <= Len(Candidates)
    /\ settled = issued - (IF position = "awaitHealth" THEN 1 ELSE 0)

\* C15: of two calls that interleave at their awaits, each holds only what it
\* did itself (its result set within the URLs it probed successfully, its
\* probes within its own n, its attempts counting its own settled probes), and
\* no step of one call changes a local of the other.
C15_NoSharedState ==
    /\ [](/\ OwnDoing(pc, techPreviewEndpoints, returned, okProbed, probes, attempts)
          /\ OwnDoing(other.pc, other.techPreviewEndpoints, other.returned,
                      other.okProbed, other.probes, other.attempts))
    /\ [][ /\ other' # other =>
                UNCHANGED <<pc, dwnUrls, techPreviewEndpoints, attempts, nodeIdx,
                            returned, probes, okProbed>>
           /\ <<pc, dwnUrls, techPreviewEndpoints, attempts, nodeIdx, returned,
                probes, okProbed>>' #
              <<pc, dwnUrls, techPreviewEndpoints, attempts, nodeIdx, returned,
                probes, okProbed>> => other' = other
         ]_vars

\* C15 witness: both calls have a probe in flight at once, and each has found
\* a URL the other has not.
C15_Witness ==
    /\ pc = "awaitHealth"
    /\ other.pc = "awaitHealth"
    /\ Len(techPreviewEndpoints) = 1
    /\ Len(other.techPreviewEndpoints) = 1
    /\ techPreviewEndpoints # other.techPreviewEndpoints

=============================================================================
